---- MODULE Spec2Model ----
(***************************************************************************)
(* Control panel task generator (src/src/generator.py).                    *)
(*                                                                         *)
(* Four specifications over one set of variables:                          *)
(*   SpecStates  TaskGenerator._generate_control_states, statement by      *)
(*               statement, over the full ranges of random.randint         *)
(*   SpecInterp  TaskGenerator._interpolate_control_state as a function of *)
(*               (type, initial, target, progress), in IEEE double         *)
(*               arithmetic                                                *)
(*   SpecFrames  TaskGenerator._create_panel_animation_frames              *)
(*   Spec        TaskGenerator.__init__ and generate_task_pair             *)
(* Each specification leaves the variables of the others at their idle     *)
(* value.                                                                  *)
(***************************************************************************)
EXTENDS Integers, Sequences, FiniteSets, TLC

VARIABLES
    \* _generate_control_states: position, argument, locals
    cs_pc, cs_type, cs_initial, cs_target, cs_label,
    \* _interpolate_control_state: position, arguments, returned value
    ip_pc, ip_type, ip_initial, ip_target, ip_progress, ip_result,
    \* TaskGenerator: self.config, VideoGenerator.is_available(),
    \* self.video_generator
    config, encoder_available, video_generator,
    \* generate_task_pair: position, locals, returned TaskPair
    pc, panel_data, first_image, final_image, encoder_result, video_path, task,
    \* _generate_panel_data: locals
    num_controls, available_types, control_types_used, controls,
    \* _create_panel_animation_frames: position, arguments, locals
    fr_pc, fr_panel, fr_hold, fr_transition, fr_i, frames

cs_vars == <<cs_pc, cs_type, cs_initial, cs_target, cs_label>>

ip_vars == <<ip_pc, ip_type, ip_initial, ip_target, ip_progress, ip_result>>

gen_vars == <<config, encoder_available, video_generator>>

tp_vars == <<pc, panel_data, first_image, final_image, encoder_result,
             video_path, task>>

pd_vars == <<num_controls, available_types, control_types_used, controls>>

fr_vars == <<fr_pc, fr_panel, fr_hold, fr_transition, fr_i, frames>>

vars == <<cs_vars, ip_vars, gen_vars, tp_vars, pd_vars, fr_vars>>

\* what each group of actions leaves alone
cs_others == <<ip_vars, gen_vars, tp_vars, pd_vars, fr_vars>>

ip_others == <<cs_vars, gen_vars, tp_vars, pd_vars, fr_vars>>

tp_others == <<cs_vars, ip_vars, fr_vars>>

fr_others == <<cs_vars, ip_vars, gen_vars, tp_vars, pd_vars>>

\* Python's None
None == "<None>"

Abs(n) == IF n < 0 THEN -n ELSE n

Min(a, b) == IF a < b THEN a ELSE b

Max(a, b) == IF a > b THEN a ELSE b

\* the elements of a list
Range(s) == {s[k] : k \in 1..Len(s)}

(***************************************************************************)
(* The control archetypes and their label vocabularies.                    *)
(***************************************************************************)
ControlTypes == {"switch", "slider", "button", "dial"}

\* a type name that is none of the four: the else branches
OtherType == "other"

Labels(ctype) ==
    CASE ctype = "switch" -> <<"Power", "Mode", "Enable", "State">>
      [] ctype = "slider" -> <<"Volume", "Speed", "Level", "Value">>
      [] ctype = "button" -> <<"Start", "Activate", "Run", "Execute">>
      [] ctype = "dial"   -> <<"Rotation", "Angle", "Position">>
      [] OTHER            -> <<"Control">>

\* random.randint(lo, hi): both ends included
RandInt(lo, hi) == lo..hi

\* random.choice(seq)
Choice(seq) == Range(seq)

SliderMin == 0
SliderMax == 100
DialMin == 0
DialMax == 360
DialMinChange == 30

\* while target == initial
SliderResampleCond(initial, target) == target = initial

\* the loop left unguarded: a target equal to the initial value is returned
DialResampleCondNever(initial, target) == FALSE

\* while abs(target - initial) < 30
DialResampleCond(initial, target) == Abs(target - initial) < DialMinChange

(***************************************************************************)
(* _generate_control_states(control_type), one action per statement group. *)
(***************************************************************************)
CsIdle ==
    /\ cs_pc = "idle" /\ cs_type = None /\ cs_initial = None
    /\ cs_target = None /\ cs_label = None

CsInit ==
    /\ cs_pc = "start"
    /\ cs_type \in ControlTypes \cup {OtherType}
    /\ cs_initial = None
    /\ cs_target = None
    /\ cs_label = None

CsSwitch ==
    /\ cs_pc = "start" /\ cs_type = "switch"
    /\ \E initial \in Choice(<<TRUE, FALSE>>) :
          /\ cs_initial' = initial
          /\ cs_target' = ~initial
    /\ cs_label' \in Choice(Labels("switch"))
    /\ cs_pc' = "done"
    /\ UNCHANGED cs_type
    /\ UNCHANGED cs_others

CsSliderDraw ==
    /\ cs_pc = "start" /\ cs_type = "slider"
    /\ cs_initial' \in RandInt(SliderMin, SliderMax)
    /\ cs_target' \in RandInt(SliderMin, SliderMax)
    /\ cs_pc' = "slider_loop"
    /\ UNCHANGED <<cs_type, cs_label>>
    /\ UNCHANGED cs_others

CsSliderResample ==
    /\ cs_pc = "slider_loop"
    /\ SliderResampleCond(cs_initial, cs_target)
    /\ cs_target' \in RandInt(SliderMin, SliderMax)
    /\ UNCHANGED <<cs_pc, cs_type, cs_initial, cs_label>>
    /\ UNCHANGED cs_others

CsSliderReturn ==
    /\ cs_pc = "slider_loop"
    /\ ~SliderResampleCond(cs_initial, cs_target)
    /\ cs_label' \in Choice(Labels("slider"))
    /\ cs_pc' = "done"
    /\ UNCHANGED <<cs_type, cs_initial, cs_target>>
    /\ UNCHANGED cs_others

CsButton ==
    /\ cs_pc = "start" /\ cs_type = "button"
    /\ cs_initial' = FALSE
    /\ cs_target' = TRUE
    /\ cs_label' \in Choice(Labels("button"))
    /\ cs_pc' = "done"
    /\ UNCHANGED cs_type
    /\ UNCHANGED cs_others

CsDialDraw ==
    /\ cs_pc = "start" /\ cs_type = "dial"
    /\ cs_initial' \in RandInt(DialMin, DialMax)
    /\ cs_target' \in RandInt(DialMin, DialMax)
    /\ cs_pc' = "dial_loop"
    /\ UNCHANGED <<cs_type, cs_label>>
    /\ UNCHANGED cs_others

CsDialResample ==
    /\ cs_pc = "dial_loop"
    /\ DialResampleCond(cs_initial, cs_target)
    /\ cs_target' \in RandInt(DialMin, DialMax)
    /\ UNCHANGED <<cs_pc, cs_type, cs_initial, cs_label>>
    /\ UNCHANGED cs_others

CsDialReturn ==
    /\ cs_pc = "dial_loop"
    /\ ~DialResampleCond(cs_initial, cs_target)
    /\ cs_label' \in Choice(Labels("dial"))
    /\ cs_pc' = "done"
    /\ UNCHANGED <<cs_type, cs_initial, cs_target>>
    /\ UNCHANGED cs_others

CsDefault ==
    /\ cs_pc = "start" /\ cs_type \notin ControlTypes
    /\ cs_initial' = FALSE
    /\ cs_target' = TRUE
    /\ cs_label' = "Control"
    /\ cs_pc' = "done"
    /\ UNCHANGED cs_type
    /\ UNCHANGED cs_others

NextStates ==
    \/ CsSwitch
    \/ CsSliderDraw
    \/ CsSliderResample
    \/ CsSliderReturn
    \/ CsButton
    \/ CsDialDraw
    \/ CsDialResample
    \/ CsDialReturn
    \/ CsDefault

(***************************************************************************)
(* Python floats.  Every float the interpolation computes is an IEEE 754   *)
(* double of magnitude below 1024 whose lowest set bit is 2^-60 or above,  *)
(* so it is held exactly as a sign, an integer part and 60 binary fraction *)
(* digits in three limbs of 20 (f1 the highest).  Each arithmetic          *)
(* operation computes the exact result and rounds it to 53 significant     *)
(* bits, ties to even, as the hardware does.                               *)
(***************************************************************************)
\* significant bits of a double: 52 stored and the leading one
Mantissa == 52 + 1

LimbBits == 4 * 5

RECURSIVE Pow2(_)
Pow2(m) == IF m = 0 THEN 1 ELSE 2 * Pow2(m - 1)

Limb == Pow2(LimbBits)

RECURSIVE BitLen(_)
\* the number of binary digits of n >= 0
BitLen(n) == IF n = 0 THEN 0 ELSE 1 + BitLen(n \div 2)

Dbl(neg, int, f1, f2, f3) ==
    [neg |-> neg, int |-> int, f1 |-> f1, f2 |-> f2, f3 |-> f3]

\* float(n) of an int
DblOfInt(n) == Dbl(n < 0, Abs(n), 0, 0, 0)

IsZero(x) == x.int = 0 /\ x.f1 = 0 /\ x.f2 = 0 /\ x.f3 = 0

FracIsZero(x) == x.f1 = 0 /\ x.f2 = 0 /\ x.f3 = 0

\* the limbs with their carries passed upward
Normalize(neg, int, f1, f2, f3) ==
    LET c3 == f3 \div Limb
        g2 == f2 + c3
        c2 == g2 \div Limb
        g1 == f1 + c2
        c1 == g1 \div Limb
    IN  Dbl(neg, int + c1, g1 % Limb, g2 % Limb, f3 % Limb)

\* the exact value (plus something below the last digit when sticky) rounded
\* to 53 significant bits, round-half-to-even.  The last kept digit lies in
\* the third limb for every value of magnitude in [2^-7, 1024).
Round53(neg, int, f1, f2, f3, sticky) ==
    IF int = 0 /\ f1 = 0 /\ f2 = 0 /\ f3 = 0 THEN DblOfInt(0)
    ELSE
    LET lead == IF f1 > 0 THEN LimbBits + 1 - BitLen(f1)
                ELSE IF f2 > 0 THEN 2 * LimbBits + 1 - BitLen(f2)
                ELSE 3 * LimbBits + 1 - BitLen(f3)
        keep == IF int > 0 THEN Mantissa - BitLen(int) ELSE lead + Mantissa - 1
    IN  IF keep >= 3 * LimbBits THEN Dbl(neg, int, f1, f2, f3)
        ELSE
        LET unit  == Pow2(3 * LimbBits - keep)
            low   == f3 % unit
            guard == low >= unit \div 2
            rest  == sticky \/ low % (unit \div 2) # 0
            lsb   == (f3 \div unit) % 2
            up    == guard /\ (rest \/ lsb = 1)
        IN  Normalize(neg, int, f1, f2, f3 - low + (IF up THEN unit ELSE 0))

\* i / n of two ints, 0 <= i <= n, n > 0: true division, correctly rounded
DblDiv(i, n) ==
    IF i = n THEN DblOfInt(1)
    ELSE LET t1 == i * Limb
             t2 == (t1 % n) * Limb
             t3 == (t2 % n) * Limb
         IN  Round53(FALSE, 0, t1 \div n, t2 \div n, t3 \div n, t3 % n # 0)

\* k * x for an int k and a float x
DblMulInt(k, x) ==
    IF k = 0 \/ IsZero(x) THEN DblOfInt(0)
    ELSE LET m  == Abs(k)
             t3 == m * x.f3
             t2 == m * x.f2 + t3 \div Limb
             t1 == m * x.f1 + t2 \div Limb
         IN  Round53((k < 0) # x.neg, m * x.int + t1 \div Limb,
                     t1 % Limb, t2 % Limb, t3 % Limb, FALSE)

\* a - x.int - 1 + (1 - fraction of x), for a fraction # 0
SubFrac(a, x) ==
    LET g3 == (Limb - x.f3) % Limb
        b3 == IF x.f3 # 0 THEN 1 ELSE 0
        g2 == (Limb - x.f2 - b3) % Limb
        b2 == IF x.f2 + b3 # 0 THEN 1 ELSE 0
        g1 == (Limb - x.f1 - b2) % Limb
    IN  Round53(FALSE, a - x.int - 1, g1, g2, g3, FALSE)

\* a + x for an int a >= 0 and a float x
DblAddInt(a, x) ==
    IF ~x.neg THEN Round53(FALSE, a + x.int, x.f1, x.f2, x.f3, FALSE)
    ELSE IF FracIsZero(x) THEN DblOfInt(a - x.int)
    ELSE IF a > x.int THEN SubFrac(a, x)
    ELSE Round53(TRUE, x.int - a, x.f1, x.f2, x.f3, FALSE)

\* x % 360 of a float: fmod, then + 360 when the remainder is negative
DblMod360(x) ==
    LET r == Dbl(x.neg, x.int % 360, x.f1, x.f2, x.f3)
    IN  IF IsZero(r) THEN DblOfInt(0)
        ELSE IF ~x.neg THEN r
        ELSE DblAddInt(360, r)

\* int(x): truncation toward zero
DblTrunc(x) == IF x.neg THEN -x.int ELSE x.int

\* x >= 0.5
DblGeHalf(x) == ~x.neg /\ (x.int >= 1 \/ x.f1 >= Limb \div 2)

(***************************************************************************)
(* _interpolate_control_state(control_type, initial, target, progress)     *)
(***************************************************************************)
\* x > 0.5
DblGtHalf(x) ==
    /\ ~x.neg
    /\ \/ x.int >= 1
       \/ x.f1 > Limb \div 2
       \/ x.f1 = Limb \div 2 /\ (x.f2 > 0 \/ x.f3 > 0)

\* the flip one comparison late: target only after the midpoint
StepInterpolationStrict(initial, target, progress) ==
    IF DblGtHalf(progress) THEN target ELSE initial

\* return target if progress >= 0.5 else initial
StepInterpolation(initial, target, progress) ==
    IF DblGeHalf(progress) THEN target ELSE initial

\* the offset forgotten: int((target - initial) * progress)
SliderInterpolationNoOffset(initial, target, progress) ==
    DblTrunc(DblMulInt(target - initial, progress))

\* int(initial + (target - initial) * progress)
SliderInterpolation(initial, target, progress) ==
    DblTrunc(DblAddInt(initial, DblMulInt(target - initial, progress)))

\* diff = target - initial, normalised to [-180, 180]
DialDiff(initial, target) ==
    LET diff == target - initial
    IN  IF diff > 180 THEN diff - 360
        ELSE IF diff < -180 THEN diff + 360
        ELSE diff

\* int((initial + diff * progress) % 360)
DialInterpolation(initial, target, progress) ==
    DblTrunc(DblMod360(DblAddInt(initial,
                 DblMulInt(DialDiff(initial, target), progress))))

InterpolateControlState(ctype, initial, target, progress) ==
    CASE ctype = "switch" -> StepInterpolation(initial, target, progress)
      [] ctype = "slider" -> SliderInterpolation(initial, target, progress)
      [] ctype = "button" -> StepInterpolation(initial, target, progress)
      [] ctype = "dial"   -> DialInterpolation(initial, target, progress)
      [] OTHER            -> StepInterpolation(initial, target, progress)


(***************************************************************************)
(* One call of _interpolate_control_state.  The arguments are drawn from   *)
(* bounded sets; progress is the float i / n of two ints, as                *)
(* _create_panel_animation_frames computes it (i / (transition_frames - 1))*)
(* and as the literals 0.49 = 49/100 and 0.5 = 1/2 denote.                 *)
(***************************************************************************)
DefaultHoldFrames == 5
DefaultTransitionFrames == 30

\* denominators of the progress values tried
ProgressDens == {1, 2, 4, DefaultTransitionFrames - 1, 100}

ProgressInputs == {<<i, n>> \in (0..100) \X ProgressDens : i <= n}

SliderInputs == {0, 1, 2, 3, 13, 29, 50, 87, 99, 100}

DialInputs == {0, 10, 15, 30, 45, 90, 180, 181, 216, 270, 288, 350, 359, 360}

StateInputs(ctype) ==
    CASE ctype = "slider" -> SliderInputs
      [] ctype = "dial"   -> DialInputs
      [] OTHER            -> BOOLEAN

\* the float a (numerator, denominator) pair denotes
ProgressOf(q) == DblDiv(q[1], q[2])

IpIdle ==
    /\ ip_pc = "idle" /\ ip_type = None /\ ip_initial = None
    /\ ip_target = None /\ ip_progress = None /\ ip_result = None

IpInit ==
    /\ ip_pc = "call"
    /\ ip_type \in ControlTypes \cup {OtherType}
    /\ ip_initial \in StateInputs(ip_type)
    /\ ip_target \in StateInputs(ip_type)
    /\ ip_progress \in ProgressInputs
    /\ ip_result = None

Interpolate ==
    /\ ip_pc = "call"
    /\ ip_result' = InterpolateControlState(ip_type, ip_initial, ip_target,
                                            ProgressOf(ip_progress))
    /\ ip_pc' = "done"
    /\ UNCHANGED <<ip_type, ip_initial, ip_target, ip_progress>>
    /\ UNCHANGED ip_others

NextInterp ==
    \/ Interpolate


(***************************************************************************)
(* _generate_panel_data: the layout.                                       *)
(***************************************************************************)
Margin == 40
MinControlWidth == 80
MaxControlWidth == 120
MinControlHeight == 60
MaxControlHeight == 80
CellPadding == 40
MinControls == 2
MaxControls == 5
GridThreshold == 4

\* the range check dropped
ClampNumControlsMissing(n) == n

\* num_controls = max(2, min(5, num_controls))
ClampNumControls(n) == Max(MinControls, Min(MaxControls, n))

\* use_grid = num_controls >= 4
UseGrid(n) == n >= GridThreshold

Cols(n) == IF UseGrid(n) THEN 2 ELSE 1

Rows(n) == IF UseGrid(n) THEN (n + 1) \div 2 ELSE n

PanelWidth(size) == size[1] - 2 * Margin

PanelHeight(size) == size[2] - 2 * Margin

CellWidth(n, size) ==
    IF UseGrid(n) THEN PanelWidth(size) \div Cols(n) ELSE PanelWidth(size)

CellHeight(n, size) == PanelHeight(size) \div Rows(n)

\* col, row of control i (counted from 0)
ColOf(i, n) == IF UseGrid(n) THEN i % Cols(n) ELSE 0

RowOf(i, n) == IF UseGrid(n) THEN i \div Cols(n) ELSE i

\* every control placed in the first column
ControlPositionFirstColumn(i, n, size) ==
    <<Margin + CellWidth(n, size) \div 2,
      Margin + RowOf(i, n) * CellHeight(n, size) + CellHeight(n, size) \div 2>>

\* (x, y): the centre of the control's cell
ControlPosition(i, n, size) ==
    <<Margin + ColOf(i, n) * CellWidth(n, size) + CellWidth(n, size) \div 2,
      Margin + RowOf(i, n) * CellHeight(n, size) + CellHeight(n, size) \div 2>>

\* (control_w, control_h)
ControlSize(n, size) ==
    <<Max(MinControlWidth, Min(MaxControlWidth, CellWidth(n, size) - CellPadding)),
      Max(MinControlHeight, Min(MaxControlHeight, CellHeight(n, size) - CellPadding))>>

\* the drawn type left in the pool: a draw with replacement
RemoveNothing(seq, x) == seq

\* list.remove(x): the list without the first occurrence of x
RemoveFirst(seq, x) ==
    LET k == CHOOSE j \in 1..Len(seq) :
                seq[j] = x /\ \A h \in 1..(j - 1) : seq[h] # x
    IN  SubSeq(seq, 1, k - 1) \o SubSeq(seq, k + 1, Len(seq))

\* the values of random.randint the panels are built from
SliderPanelSamples == {0, 100}

DialPanelSamples == {0, 90}

\* the (initial, target, label) triples _generate_control_states(ctype) can
\* return, with the random integers drawn from the panel samples and the
\* label the first of the vocabulary
GenerateControlStates(ctype) ==
    CASE ctype = "switch" ->
            {<<initial, ~initial, Labels(ctype)[1]>> : initial \in BOOLEAN}
      [] ctype = "slider" ->
            {<<st[1], st[2], Labels(ctype)[1]>> :
                st \in {v \in SliderPanelSamples \X SliderPanelSamples :
                           ~SliderResampleCond(v[1], v[2])}}
      [] ctype = "button" -> {<<FALSE, TRUE, Labels(ctype)[1]>>}
      [] ctype = "dial" ->
            {<<st[1], st[2], Labels(ctype)[1]>> :
                st \in {v \in DialPanelSamples \X DialPanelSamples :
                           ~DialResampleCond(v[1], v[2])}}
      [] OTHER -> {<<FALSE, TRUE, "Control">>}

\* self.config.control_types after available_types.remove(ctype):
\* available_types is a .copy() of it, so the removal does not reach it
ConfigTypesAfterRemove(cfg_types, pool, ctype) == cfg_types

\* ControlPanel.add_control: the record appended to panel.controls
Control(ctype, position, size, initial, target, label) ==
    [type |-> ctype, position |-> position, size |-> size,
     initial_state |-> initial, target_state |-> target, label |-> label]

\* "switches" as soon as one control is a switch: any() for all()
TaskTypeOfAnySwitch(types_used) ==
    IF \E k \in 1..Len(types_used) : types_used[k] = "switch" THEN "switches"
    ELSE IF "slider" \in Range(types_used) /\ Len(types_used) = 1 THEN "slider"
    ELSE "default"

\* the prompt family of a panel
TaskTypeOf(types_used) ==
    IF \A k \in 1..Len(types_used) : types_used[k] = "switch" THEN "switches"
    ELSE IF "slider" \in Range(types_used) /\ Len(types_used) = 1 THEN "slider"
    ELSE "default"

(***************************************************************************)
(* prompts.py: PROMPTS holds 4, 3, 2 and 2 prompts; a prompt is named by   *)
(* its family and its index.                                               *)
(***************************************************************************)
PromptCount(family) ==
    CASE family = "default"  -> 4
      [] family = "switches" -> 3
      [] family = "slider"   -> 2
      [] family = "mixed"    -> 2
      [] OTHER               -> 0

\* get_prompt(task_type): random.choice(PROMPTS.get(task_type, PROMPTS["default"]))
GetPrompt(task_type) ==
    LET family == IF PromptCount(task_type) > 0 THEN task_type ELSE "default"
    IN  {<<family, k>> : k \in 1..PromptCount(family)}

(***************************************************************************)
(* Rendering: an image is the canvas size and, control by control, what    *)
(* _draw_control was called with.                                          *)
(***************************************************************************)
DrawControl(control, state) ==
    [type |-> control.type, position |-> control.position,
     size |-> control.size, state |-> state, label |-> control.label]

\* _render_panel(panel_data, render_target)
RenderPanel(ctrls, size, render_target) ==
    [size |-> size,
     drawn |-> [k \in 1..Len(ctrls) |->
                  DrawControl(ctrls[k], IF render_target THEN ctrls[k].target_state
                                        ELSE ctrls[k].initial_state)]]

(***************************************************************************)
(* TaskGenerator.__init__ and generate_task_pair.                          *)
(***************************************************************************)
\* how far outside 2..5 the configured num_controls ranges
NumControlsSlack == 1

NumControlsInputs == (MinControls - NumControlsSlack)..(MaxControls + NumControlsSlack)

ImageSizes == {<<512, 512>>, <<240, 400>>, <<200, 200>>}

Palettes == {<<"switch", "slider", "button", "dial">>, <<"slider", "dial">>,
             <<"switch">>, <<"slider">>}

Configs ==
    [num_controls : NumControlsInputs, image_size : ImageSizes,
     control_types : Palettes, generate_videos : BOOLEAN,
     domain : {"control_panel"}]

TaskIds == {"task_0000"}

\* what create_video_from_frames may return: the path written, or a falsy
\* value (None, False, an empty string)
WrittenPath == "video.mp4"

EncoderResults == {WrittenPath, None, "False", ""}

Truthy(v) == v \notin {None, "False", ""}

\* the availability probe ignored
VideoGeneratorOfAlways(cfg, available) ==
    IF cfg.generate_videos THEN "VideoGenerator" ELSE None

\* self.video_generator after __init__
VideoGeneratorOf(cfg, available) ==
    IF cfg.generate_videos /\ available THEN "VideoGenerator" ELSE None

TpIdle ==
    /\ config = None /\ encoder_available = None /\ video_generator = None
    /\ pc = "idle" /\ panel_data = None /\ first_image = None
    /\ final_image = None /\ encoder_result = None /\ video_path = None
    /\ task = None
    /\ num_controls = None /\ available_types = None
    /\ control_types_used = None /\ controls = None

TpInit ==
    /\ config \in Configs
    /\ encoder_available \in BOOLEAN
    /\ video_generator = VideoGeneratorOf(config, encoder_available)
    /\ pc = "generate_panel_data"
    /\ panel_data = None /\ first_image = None /\ final_image = None
    /\ encoder_result = None /\ video_path = None /\ task = None
    /\ num_controls = None /\ available_types = None
    /\ control_types_used = None /\ controls = None

\* _generate_panel_data, up to the loop
PanelStart ==
    /\ pc = "generate_panel_data"
    /\ num_controls' = ClampNumControls(config.num_controls)
    /\ available_types' = config.control_types
    /\ control_types_used' = <<>>
    /\ controls' = <<>>
    /\ pc' = "controls_loop"
    /\ UNCHANGED <<gen_vars, panel_data, first_image, final_image,
                   encoder_result, video_path, task>>
    /\ UNCHANGED tp_others

\* one iteration of for i in range(num_controls)
AddControl ==
    /\ pc = "controls_loop"
    /\ Len(controls) < num_controls
    /\ LET i    == Len(controls)
           pool == IF available_types = <<>> THEN config.control_types
                   ELSE available_types
       IN  \E ctype \in Choice(pool) :
           \E st \in GenerateControlStates(ctype) :
              /\ available_types' = RemoveFirst(pool, ctype)
              /\ config' = [config EXCEPT !.control_types =
                               ConfigTypesAfterRemove(@, pool, ctype)]
              /\ control_types_used' = Append(control_types_used, ctype)
              /\ controls' = Append(controls,
                     Control(ctype,
                             ControlPosition(i, num_controls, config.image_size),
                             ControlSize(num_controls, config.image_size),
                             st[1], st[2], st[3]))
    /\ UNCHANGED <<encoder_available, video_generator, tp_vars, num_controls>>
    /\ UNCHANGED tp_others

\* the loop is over: task_type and the returned dict
PanelReturn ==
    /\ pc = "controls_loop"
    /\ Len(controls) >= num_controls
    /\ panel_data' = [task_type |-> TaskTypeOf(control_types_used),
                      controls |-> controls]
    /\ pc' = "render"
    /\ UNCHANGED <<gen_vars, pd_vars, first_image, final_image,
                   encoder_result, video_path, task>>
    /\ UNCHANGED tp_others

\* first_image, final_image = the two renders
RenderImages ==
    /\ pc = "render"
    /\ first_image' = RenderPanel(panel_data.controls, config.image_size, FALSE)
    /\ final_image' = RenderPanel(panel_data.controls, config.image_size, TRUE)
    /\ pc' = "video"
    /\ UNCHANGED <<gen_vars, pd_vars, panel_data, encoder_result, video_path, task>>
    /\ UNCHANGED tp_others

\* str(result) if result else None
VideoPathOf(result) == IF Truthy(result) THEN result ELSE None

\* if self.config.generate_videos and self.video_generator: _generate_video,
\* whose frames go to the encoder; the encoder's answer is the environment's
GenerateVideo ==
    /\ pc = "video"
    /\ config.generate_videos /\ video_generator # None
    /\ \E result \in EncoderResults :
          /\ encoder_result' = result
          /\ video_path' = VideoPathOf(result)
    /\ pc' = "prompt"
    /\ UNCHANGED <<gen_vars, pd_vars, panel_data, first_image, final_image, task>>
    /\ UNCHANGED tp_others

\* video generation off or no encoder: video_path stays None
SkipVideo ==
    /\ pc = "video"
    /\ ~(config.generate_videos /\ video_generator # None)
    /\ pc' = "prompt"
    /\ UNCHANGED <<gen_vars, pd_vars, panel_data, first_image, final_image,
                   encoder_result, video_path, task>>
    /\ UNCHANGED tp_others

\* prompt = get_prompt(...); return TaskPair(...)
ReturnTaskPair ==
    /\ pc = "prompt"
    /\ \E task_id \in TaskIds :
       \E prompt \in GetPrompt(panel_data.task_type) :
          task' = [task_id |-> task_id, domain |-> config.domain,
                   prompt |-> prompt, first_image |-> first_image,
                   final_image |-> final_image,
                   ground_truth_video |-> video_path]
    /\ pc' = "done"
    /\ UNCHANGED <<gen_vars, pd_vars, panel_data, first_image, final_image,
                   encoder_result, video_path>>
    /\ UNCHANGED tp_others

Next ==
    \/ PanelStart
    \/ AddControl
    \/ PanelReturn
    \/ RenderImages
    \/ GenerateVideo
    \/ SkipVideo
    \/ ReturnTaskPair

(***************************************************************************)
(* _create_panel_animation_frames(panel_data, hold_frames,                 *)
(* transition_frames), one action per appended frame.                      *)
(***************************************************************************)
\* the largest hold_frames and transition_frames tried besides the defaults
MaxHoldFrames == 2
MaxTransitionFrames == 4

HoldInputs == (0..MaxHoldFrames) \cup {DefaultHoldFrames}

TransitionInputs == (0..MaxTransitionFrames) \cup {DefaultTransitionFrames}

FrameImageSize == <<512, 512>>

\* the controls _generate_panel_data can put in slot i of a two-control panel
SlotControls(i) ==
    UNION {{Control(ctype, ControlPosition(i, 2, FrameImageSize),
                    ControlSize(2, FrameImageSize), st[1], st[2], st[3]) :
               st \in GenerateControlStates(ctype)} : ctype \in ControlTypes}

\* the two-control panels on a 512 x 512 canvas
FramePanels == {<<c1, c2>> : c1 \in SlotControls(0), c2 \in SlotControls(1)}

\* the denominator off by one: i / transition_frames
TransitionProgressLate(i, transition_frames) ==
    DblDiv(i, transition_frames)

\* progress = i / (transition_frames - 1) if transition_frames > 1 else 1.0
TransitionProgress(i, transition_frames) ==
    IF transition_frames > 1 THEN DblDiv(i, transition_frames - 1)
    ELSE DblOfInt(1)

\* a transition frame: every control drawn at its interpolated state
InterpolatedFrame(ctrls, size, progress) ==
    [size |-> size,
     drawn |-> [k \in 1..Len(ctrls) |->
                  DrawControl(ctrls[k],
                      InterpolateControlState(ctrls[k].type,
                          ctrls[k].initial_state, ctrls[k].target_state,
                          progress))]]

FrIdle ==
    /\ fr_pc = "idle" /\ fr_panel = None /\ fr_hold = None
    /\ fr_transition = None /\ fr_i = None /\ frames = None

FrInit ==
    /\ fr_pc = "hold_initial"
    /\ fr_panel \in FramePanels
    /\ fr_hold \in HoldInputs
    /\ fr_transition \in TransitionInputs
    /\ fr_i = 0
    /\ frames = <<>>

\* for _ in range(hold_frames): frames.append(initial_img.copy())
HoldInitial ==
    /\ fr_pc = "hold_initial" /\ fr_i < fr_hold
    /\ frames' = Append(frames, RenderPanel(fr_panel, FrameImageSize, FALSE))
    /\ fr_i' = fr_i + 1
    /\ UNCHANGED <<fr_pc, fr_panel, fr_hold, fr_transition>>
    /\ UNCHANGED fr_others

StartTransition ==
    /\ fr_pc = "hold_initial" /\ fr_i >= fr_hold
    /\ fr_pc' = "transition"
    /\ fr_i' = 0
    /\ UNCHANGED <<fr_panel, fr_hold, fr_transition, frames>>
    /\ UNCHANGED fr_others

\* one iteration of for i in range(transition_frames)
TransitionFrame ==
    /\ fr_pc = "transition" /\ fr_i < fr_transition
    /\ frames' = Append(frames,
           InterpolatedFrame(fr_panel, FrameImageSize,
                             TransitionProgress(fr_i, fr_transition)))
    /\ fr_i' = fr_i + 1
    /\ UNCHANGED <<fr_pc, fr_panel, fr_hold, fr_transition>>
    /\ UNCHANGED fr_others

StartHoldFinal ==
    /\ fr_pc = "transition" /\ fr_i >= fr_transition
    /\ fr_pc' = "hold_final"
    /\ fr_i' = 0
    /\ UNCHANGED <<fr_panel, fr_hold, fr_transition, frames>>
    /\ UNCHANGED fr_others

\* for _ in range(hold_frames): frames.append(final_img.copy())
HoldFinal ==
    /\ fr_pc = "hold_final" /\ fr_i < fr_hold
    /\ frames' = Append(frames, RenderPanel(fr_panel, FrameImageSize, TRUE))
    /\ fr_i' = fr_i + 1
    /\ UNCHANGED <<fr_pc, fr_panel, fr_hold, fr_transition>>
    /\ UNCHANGED fr_others

\* return frames
FramesReturn ==
    /\ fr_pc = "hold_final" /\ fr_i >= fr_hold
    /\ fr_pc' = "done"
    /\ UNCHANGED <<fr_panel, fr_hold, fr_transition, fr_i, frames>>
    /\ UNCHANGED fr_others

NextFrames ==
    \/ HoldInitial
    \/ StartTransition
    \/ TransitionFrame
    \/ StartHoldFinal
    \/ HoldFinal
    \/ FramesReturn

(***************************************************************************)
(* The specifications.                                                     *)
(***************************************************************************)
Init == TpInit /\ CsIdle /\ IpIdle /\ FrIdle

Spec == Init /\ [][Next]_vars

InitStates == CsInit /\ IpIdle /\ TpIdle /\ FrIdle

SpecStates == InitStates /\ [][NextStates]_vars

InitInterp == IpInit /\ CsIdle /\ TpIdle /\ FrIdle

InitFrames == FrInit /\ CsIdle /\ IpIdle /\ TpIdle

SpecFrames == InitFrames /\ [][NextFrames]_vars

SpecInterp == InitInterp /\ [][NextInterp]_vars

(***************************************************************************)
(* Claims about _generate_control_states (SpecStates).                     *)
(***************************************************************************)
CsReturned == cs_pc = "done"

\* C1: every returned record has initial_state # target_state for switch,
\* slider and dial, and initial_state = False, target_state = True for
\* button.
C1_NonIdentity ==
    CsReturned =>
        /\ cs_type \in {"switch", "slider", "dial"} => cs_initial # cs_target
        /\ cs_type = "button" => (cs_initial = FALSE /\ cs_target = TRUE)

\* a dial returned with the smallest change the loop lets through
C1_Witness ==
    /\ CsReturned
    /\ cs_type = "dial"
    /\ Abs(cs_target - cs_initial) = DialMinChange

\* the circular distance between two dial angles
CircularDistance(a, b) == Min(Abs(b - a), 360 - Abs(b - a))

\* C2: every returned dial pair is at least 30 degrees apart on the circle:
\* min(D, 360 - D) >= 30 with D = |target_state - initial_state|.
C2_DialCircularDistance ==
    (CsReturned /\ cs_type = "dial") =>
        CircularDistance(cs_initial, cs_target) >= DialMinChange

\* C10: returned slider states are integers in [0,100] and returned dial
\* states are integer degrees in [0,360), i.e. 0..359.
C10_StateDomains ==
    CsReturned =>
        /\ cs_type = "slider" =>
              (cs_initial \in 0..100 /\ cs_target \in 0..100)
        /\ cs_type = "dial" =>
              (cs_initial \in 0..359 /\ cs_target \in 0..359)

(***************************************************************************)
(* Claims about _interpolate_control_state (SpecInterp).  The reference    *)
(* values are computed in exact integer arithmetic on the progress i/n.    *)
(***************************************************************************)
IpReturned == ip_pc = "done"

\* n * (initial + (target - initial) * i/n)
LinearNum(initial, target, q) == initial * q[2] + (target - initial) * q[1]

\* Python's round(num / den): to the nearest integer, ties to even
RoundHalfEven(num, den) ==
    LET fl == num \div den
        r2 == 2 * (num - fl * den)
    IN  IF r2 < den THEN fl
        ELSE IF r2 > den THEN fl + 1
        ELSE IF fl % 2 = 0 THEN fl ELSE fl + 1

\* progress values that a double holds exactly
ExactProgress(q) == q[2] \in {1, 2, 4}

\* interpolate("slider", 0, 100, p) is 0 at p = 0, 50 at p = 0.5, 100 at p = 1
SliderExamples ==
    (ip_type = "slider" /\ ip_initial = 0 /\ ip_target = 100) =>
        /\ ip_progress[1] = 0 => ip_result = 0
        /\ 2 * ip_progress[1] = ip_progress[2] => ip_result = 50
        /\ ip_progress[1] = ip_progress[2] => ip_result = 100

\* C5 as stated: the slider result is round(initial + (target - initial) *
\* progress), the nearest integer to the linear interpolant.
C5_SliderRounds ==
    (IpReturned /\ ip_type = "slider") =>
        /\ ip_result = RoundHalfEven(LinearNum(ip_initial, ip_target, ip_progress),
                                     ip_progress[2])
        /\ SliderExamples

\* C5 as the code has it: the slider result r is the linear interpolant v
\* truncated, not rounded: r <= v <= r + 1, with r = floor(v) whenever the
\* progress is exactly representable, and 0, 50, 100 for (0,100) at progress
\* 0, 0.5, 1.
C5_SliderTruncates ==
    (IpReturned /\ ip_type = "slider") =>
        LET n == ip_progress[2]
            v == LinearNum(ip_initial, ip_target, ip_progress)
        IN  /\ ip_result * n <= v
            /\ v <= (ip_result + 1) * n
            /\ ExactProgress(ip_progress) => ip_result = v \div n
            /\ SliderExamples

\* 0 -> 3 at progress 0.5: the interpolant 1.5 is returned as 1
C5_Witness ==
    /\ IpReturned /\ ip_type = "slider"
    /\ ip_initial = 0 /\ ip_target = 3 /\ ip_progress = <<1, 2>>
    /\ ip_result = 1

\* C6: the dial takes the shortest arc: delta = target - initial, reduced by
\* 360 when above 180 and raised by 360 when below -180, covers at most 180
\* degrees, the result is an integer in [0,360), it is (initial + delta *
\* progress) mod 360 truncated, and (10, 350, 0.5) gives 0.
C6_DialShortestArc ==
    (IpReturned /\ ip_type = "dial") =>
        LET n     == ip_progress[2]
            delta == ip_target - ip_initial
            arc   == IF delta > 180 THEN delta - 360
                     ELSE IF delta < -180 THEN delta + 360 ELSE delta
            v     == ip_initial * n + arc * ip_progress[1]
        IN  /\ Abs(arc) <= 180
            /\ ip_result \in 0..359
            /\ ExactProgress(ip_progress) => ip_result = (v % (360 * n)) \div n
            /\ (ip_initial = 10 /\ ip_target = 350 /\ ip_progress = <<1, 2>>)
                  => ip_result = 0

\* C7: switch and button are step functions: initial for progress < 0.5,
\* target for progress >= 0.5, never another value; switch (False, True)
\* gives False at 0.49 and True at 0.5.
C7_StepFunction ==
    (IpReturned /\ ip_type \in {"switch", "button"}) =>
        /\ ip_result = IF 2 * ip_progress[1] < ip_progress[2]
                       THEN ip_initial ELSE ip_target
        /\ (ip_type = "switch" /\ ip_initial = FALSE /\ ip_target = TRUE) =>
              /\ ip_progress = <<49, 100>> => ip_result = FALSE
              /\ ip_progress = <<1, 2>> => ip_result = TRUE

\* the flip exactly at the midpoint
C7_Witness ==
    /\ IpReturned /\ ip_type = "switch"
    /\ ip_initial = FALSE /\ ip_target = TRUE
    /\ ip_progress = <<1, 2>> /\ ip_result = TRUE

(***************************************************************************)
(* Claims about _generate_panel_data and generate_task_pair (Spec).        *)
(***************************************************************************)
PanelReturned == pc \in {"render", "video", "prompt", "done"}

\* the bounding boxes, centred on position with the extent of size, share
\* interior points
Overlap(a, b) ==
    /\ 2 * Abs(a.position[1] - b.position[1]) < a.size[1] + b.size[1]
    /\ 2 * Abs(a.position[2] - b.position[2]) < a.size[2] + b.size[2]

NoOverlap(ctrls) ==
    \A j, k \in 1..Len(ctrls) : j # k => ~Overlap(ctrls[j], ctrls[k])

NeverRejected == pc # "done" => ENABLED Next

\* C8: for every num_controls, also below 2 and above 5, the returned panel
\* has exactly max(2, min(5, num_controls)) controls and the configuration is
\* never rejected.
C8_ControlCountClamped ==
    /\ PanelReturned =>
          Len(panel_data.controls) =
              (IF config.num_controls < 2 THEN 2
               ELSE IF config.num_controls > 5 THEN 5
               ELSE config.num_controls)
    /\ NeverRejected

\* a task made from num_controls = 6, with 5 controls
C8_Witness ==
    /\ pc = "done"
    /\ config.num_controls > 5
    /\ Len(panel_data.controls) = 5

\* C9: with generate_videos false, or the encoder unavailable, or a falsy
\* encoder result, generate_task_pair returns a task with both images and
\* ground_truth_video None, and no exception reaches the caller.
C9_VideoOptional ==
    /\ (/\ pc = "done"
        /\ \/ ~config.generate_videos
           \/ ~encoder_available
           \/ ~Truthy(encoder_result))
          => /\ task.first_image =
                   RenderPanel(panel_data.controls, config.image_size, FALSE)
             /\ task.final_image =
                   RenderPanel(panel_data.controls, config.image_size, TRUE)
             /\ task.ground_truth_video = None
    /\ pc # "done" => ENABLED Next

\* the encoder ran and returned an empty result
C9_Witness ==
    /\ pc = "done"
    /\ config.generate_videos /\ encoder_available
    /\ encoder_result = ""
    /\ task.ground_truth_video = None

(***************************************************************************)
(* Claims about _create_panel_animation_frames (SpecFrames).               *)
(***************************************************************************)
FramesReturned == fr_pc = "done"

\* hold_frames initial renders first, hold_frames target renders last, and
\* 2 * hold_frames + transition_frames frames in all
HoldAndLength ==
    /\ Len(frames) = 2 * fr_hold + fr_transition
    /\ \A k \in 1..fr_hold :
          /\ frames[k] = RenderPanel(fr_panel, FrameImageSize, FALSE)
          /\ frames[fr_hold + fr_transition + k] =
                RenderPanel(fr_panel, FrameImageSize, TRUE)
    /\ (fr_hold = 5 /\ fr_transition = 30) => Len(frames) = 40

\* C4 as stated: hold_frames initial renders, then transition frame i drawn
\* at progress = i / (transition_frames - 1) for every 0 <= i <
\* transition_frames, then hold_frames target renders; 2 * hold_frames +
\* transition_frames frames in all.
C4_FramesAsStated ==
    FramesReturned =>
        /\ HoldAndLength
        /\ \A i \in 0..(fr_transition - 1) :
              /\ fr_transition - 1 # 0
              /\ frames[fr_hold + i + 1] =
                    InterpolatedFrame(fr_panel, FrameImageSize,
                                      DblDiv(i, fr_transition - 1))

\* C4 as the code has it: the same, with the single transition frame of
\* transition_frames = 1 drawn at progress 1.0.
C4_FramesSequence ==
    FramesReturned =>
        /\ HoldAndLength
        /\ \A i \in 0..(fr_transition - 1) :
              frames[fr_hold + i + 1] =
                  InterpolatedFrame(fr_panel, FrameImageSize,
                      IF fr_transition = 1 THEN DblOfInt(1)
                      ELSE DblDiv(i, fr_transition - 1))

\* the default animation of a slider and a dial: 40 frames
C4_Witness ==
    /\ FramesReturned
    /\ fr_hold = 5 /\ fr_transition = 30
    /\ Len(frames) = 40
    /\ fr_panel[1].type = "slider" /\ fr_panel[2].type = "dial"

\* the types of the controls of a panel, in creation order
TypesOf(ctrls) == [k \in 1..Len(ctrls) |-> ctrls[k].type]

\* C11: task_type is a function of the control types used: "switches" when
\* every control is a switch, "slider" when the panel is a single slider,
\* "default" in every other case, each outcome for exactly the panels of its
\* case.
C11_TaskType ==
    PanelReturned =>
        LET used == TypesOf(panel_data.controls)
        IN  /\ panel_data.task_type = "switches"
                  <=> \A k \in 1..Len(used) : used[k] = "switch"
            /\ panel_data.task_type = "slider"
                  <=> (Len(used) = 1 /\ used[1] = "slider")
            /\ panel_data.task_type = "default"
                  <=> /\ \E k \in 1..Len(used) : used[k] # "switch"
                      /\ ~(Len(used) = 1 /\ used[1] = "slider")
            /\ panel_data.task_type \in {"switches", "slider", "default"}

\* a panel of five switches, classified "switches"
C11_Witness ==
    /\ PanelReturned
    /\ Len(panel_data.controls) = 5
    /\ \A k \in 1..5 : panel_data.controls[k].type = "switch"
    /\ panel_data.task_type = "switches"

\* a panel of sliders only: more than one control, so "default"
C11_AllSliders ==
    /\ PanelReturned
    /\ \A k \in 1..Len(panel_data.controls) :
          panel_data.controls[k].type = "slider"
    /\ panel_data.task_type = "default"

\* the loop of _generate_panel_data has started
InLoopOrAfter == pc \notin {"idle", "generate_panel_data"}

\* the palette holds no type twice
DistinctPalette(types) ==
    \A a, b \in 1..Len(types) : a # b => types[a] # types[b]

\* controls j*k .. j*k+k-1 (counted from 0) have pairwise different types
BlocksDistinct(used, k) ==
    \A a, b \in 1..Len(used) :
        (a < b /\ (a - 1) \div k = (b - 1) \div k) => used[a] # used[b]

\* C12: control types are drawn without replacement and the pool is refilled
\* with the full palette only when empty: for a palette of k distinct types,
\* controls j*k .. j*k+k-1 have pairwise different types, every type comes
\* from the palette, and config.control_types is never modified.
C12_DrawWithoutReplacement ==
    /\ [](InLoopOrAfter =>
            /\ Range(TypesOf(controls)) \subseteq Range(config.control_types)
            /\ DistinctPalette(config.control_types) =>
                  BlocksDistinct(TypesOf(controls), Len(config.control_types)))
    /\ [][pc # "idle" => config'.control_types = config.control_types]_vars

\* five controls from a palette of two: the pool was refilled twice, and the
\* second block starts with the type the first block ended with
C12_Witness ==
    /\ PanelReturned
    /\ Len(config.control_types) = 2
    /\ Len(controls) = 5
    /\ controls[2].type = controls[3].type

(***************************************************************************)
(* Claim relating _generate_control_states to _interpolate_control_state   *)
(* (SpecInterp).                                                           *)
(***************************************************************************)
\* <<initial, target>> is a pair _generate_control_states can return for the
\* type
Producible(type, initial, target) ==
    CASE type = "switch" -> initial \in BOOLEAN /\ target = ~initial
      [] type = "slider" -> /\ initial \in RandInt(SliderMin, SliderMax)
                            /\ target \in RandInt(SliderMin, SliderMax)
                            /\ ~SliderResampleCond(initial, target)
      [] type = "button" -> initial = FALSE /\ target = TRUE
      [] type = "dial"   -> /\ initial \in RandInt(DialMin, DialMax)
                            /\ target \in RandInt(DialMin, DialMax)
                            /\ ~DialResampleCond(initial, target)
      [] OTHER           -> FALSE

\* progress 0 gives the first argument back, progress 1 the second
EndpointsKept ==
    /\ ip_progress[1] = 0 => ip_result = ip_initial
    /\ ip_progress[1] = ip_progress[2] => ip_result = ip_target

\* C13: for every control _generate_control_states can produce, of any of
\* the four types, _interpolate_control_state returns initial_state at
\* progress 0 and target_state at progress 1.
C13_EndpointsReproduced ==
    (IpReturned /\ Producible(ip_type, ip_initial, ip_target)) => EndpointsKept

\* the same for the controls whose dial angles stay below 360
C13_EndpointsBelowFullTurn ==
    (/\ IpReturned
     /\ Producible(ip_type, ip_initial, ip_target)
     /\ ip_type = "dial" => (ip_initial < DialMax /\ ip_target < DialMax))
        => EndpointsKept

====
